---------------------------- MODULE Spec2Model ----------------------------
(***************************************************************************)
(* Model of the fast-food explorer: the FASTAPI class of fast_api.py (the  *)
(* loader, the restaurant list and the local-network extraction) and the   *)
(* Panel dashboard of fastexplorer.py (two bound callbacks that share the  *)
(* module-level variable `local`).                                         *)
(*                                                                         *)
(* Strings are sequences of ASCII code points, so that str.lower() and     *)
(* astype(str) are computed and not assumed.  A DataFrame is a sequence of *)
(* rows; every row carries its pandas index label in the field idx.        *)
(***************************************************************************)
EXTENDS Integers, Sequences, FiniteSets, TLC

VARIABLES
    disk,       \* the CSV files on disk: file name -> sequence of rows
    apiFast,    \* FASTAPI.fast, the loader's in-memory table (Unset before load_fast)
    loadedFrom, \* ghost: the file name of the last successful load_fast
    ret,        \* the value returned by the last FASTAPI call (Unset: None)
    call,       \* the last extract_local_network call: arguments and frames
    prevCall,   \* ghost: an earlier extract_local_network call, kept to compare
    exc,        \* the exception raised by the last operation ("none")
    op,         \* the operation that ran last
    dpc,        \* fastexplorer.py: position of the script
    wRestaurant,\* fastexplorer.py: value of the Restaurant select
    wMaxFat,    \* fastexplorer.py: value of the Max Fat slider
    wOptions,   \* fastexplorer.py: options of the Restaurant select
    wPlot,      \* fastexplorer.py: values of the width, height and colour widgets
    pending,    \* fastexplorer.py: bound callbacks that still have to run
    local,      \* fastexplorer.py: the module-level variable `local`
    plotted     \* fastexplorer.py: what the last get_plot run rendered

vars == <<disk, apiFast, loadedFrom, ret, call, prevCall, exc, op,
          dpc, wRestaurant, wMaxFat, wOptions, wPlot, pending, local, plotted>>

dashVars == <<dpc, wRestaurant, wMaxFat, wOptions, wPlot, pending, local, plotted>>

-----------------------------------------------------------------------------
(* Bounds of the model *)

\* the largest number of rows of the CSV at data/fastfood.csv
MaxRows == 2

-----------------------------------------------------------------------------
(* Strings *)

\* "Mcdonalds", "mcdonalds", "Sonic", "sonic" as code points
Mcdonalds == <<77, 99, 100, 111, 110, 97, 108, 100, 115>>
mcdonalds == <<109, 99, 100, 111, 110, 97, 108, 100, 115>>
Sonic     == <<83, 111, 110, 105, 99>>
sonic     == <<115, 111, 110, 105, 99>>

\* str.lower() on one ASCII character
LowerChar(c) == IF c >= 65 /\ c <= 90 THEN c + 32 ELSE c

\* str.lower()
StrLower(s) == [i \in 1..Len(s) |-> LowerChar(s[i])]

\* s < t in Python's string order (code point by code point, prefix first)
StrLess(s, t) ==
    \E i \in 1..(Len(t)) :
        /\ \A j \in 1..(i - 1) : j <= Len(s) /\ s[j] = t[j]
        /\ i - 1 <= Len(s)
        /\ (i > Len(s) \/ s[i] < t[i])

RECURSIVE Digits(_)
\* the decimal digits of n >= 0 as code points
Digits(n) == IF n < 10 THEN <<48 + n>> ELSE Append(Digits(n \div 10), 48 + (n % 10))

\* str(n) for a Python int
ToStr(n) == IF n < 0 THEN <<45>> \o Digits(0 - n) ELSE Digits(n)

-----------------------------------------------------------------------------
(* Input domains *)

\* the canonical path read by extract_local_network and the dashboard
CanonicalPath == "data/fastfood.csv"
OtherPath     == "other.csv"
MissingPath   == "missing.csv"

Item(restaurant, calories, total_fat) ==
    [restaurant |-> restaurant, calories |-> calories, total_fat |-> total_fat]

\* the menu items a CSV row is drawn from
CsvRows == {Item(Mcdonalds, 250, 3), Item(mcdonalds, 250, 17), Item(Mcdonalds, 310, 17),
            Item(mcdonalds, 310, 3), Item(Sonic, 250, 17), Item(Sonic, 310, 3)}

RECURSIVE SeqsUpTo(_, _)
SeqsUpTo(S, n) ==
    IF n = 0 THEN {<< >>}
    ELSE LET shorter == SeqsUpTo(S, n - 1)
         IN  shorter \cup {Append(s, x) : s \in {t \in shorter : Len(t) = n - 1}, x \in S}

CsvFiles == SeqsUpTo(CsvRows, MaxRows)

\* the contents of other.csv, a file that is not the canonical one
OtherCsv == <<Item(sonic, 120, 8)>>

\* restaurant arguments of extract_local_network
Queries == {Mcdonalds, mcdonalds}

\* max_fat arguments: a plain number, or an IntSlider holding a number
PlainFat(n)  == [kind |-> "int", number |-> n]
SliderFat(n) == [kind |-> "IntSlider", value |-> n]
MaxFatArgs == {PlainFat(5), PlainFat(15), SliderFat(15)}

\* values of the Max Fat slider (start=0, end=150, step=5) and its first value
SliderValues == {5, 15}
InitialMaxFat == 15

\* values of the width, height and colour widgets, and their first values
InitialPlot  == [width |-> 1000, height |-> 1000, color_picker |-> "Default (Black)"]
PlotSettings == {InitialPlot, [width |-> 1250, height |-> 1000, color_picker |-> "Vibrant Red"]}

\* an attribute or variable that is not set yet, and one that holds x
Unset     == << >>
Holds(x)  == <<x>>
ValueOf(v) == v[1]

-----------------------------------------------------------------------------
(* pandas *)

\* pd.read_csv: rows labelled 0..n-1
ReadCsv(csv) ==
    [i \in 1..Len(csv) |->
        [idx |-> i - 1, restaurant |-> csv[i].restaurant,
         calories |-> csv[i].calories, total_fat |-> csv[i].total_fat]]

\* Python's // on ints: floor division
FloorDiv(a, b) == a \div b

\* a bin that rounds to the nearest hundred instead of down
CalorieBinRounded(calories) == FloorDiv(calories + 50, 100) * 100

\* calories // 100 * 100
CalorieBin(calories) == FloorDiv(calories, 100) * 100

\* total_fat // 5 * 5
FatBin(total_fat) == FloorDiv(total_fat, 5) * 5

\* fast['calories_100'] = ...; fast['total_fat_10'] = ...
AddBins(df) ==
    [i \in 1..Len(df) |->
        [idx |-> df[i].idx, restaurant |-> df[i].restaurant,
         calories |-> df[i].calories, total_fat |-> df[i].total_fat,
         calories_100 |-> CalorieBin(df[i].calories),
         total_fat_10 |-> FatBin(df[i].total_fat)]]

\* fast[['restaurant','calories_100','total_fat_10']].copy(), restaurant lowercased
Project(df) ==
    [i \in 1..Len(df) |->
        [idx |-> df[i].idx, restaurant |-> StrLower(df[i].restaurant),
         calories_100 |-> df[i].calories_100,
         total_fat_10 |-> df[i].total_fat_10]]

\* max_fat.value if isinstance(max_fat, pn.widgets.IntSlider) else max_fat
MaxFatValue(max_fat) == IF max_fat.kind = "IntSlider" THEN max_fat.value ELSE max_fat.number

\* a fat filter with < in place of <=
FatFilterStrict(df, max_fat_value) ==
    LET Keep(row) == row.total_fat_10 < max_fat_value
    IN  SelectSeq(df, Keep)

\* a fat filter that keeps the rows over the limit instead
FatFilterReversed(df, max_fat_value) ==
    LET Keep(row) == row.total_fat_10 > max_fat_value
    IN  SelectSeq(df, Keep)

\* fast_filter[fast_filter['total_fat_10'] <= max_fat_value]
FatFilter(df, max_fat_value) ==
    LET Keep(row) == row.total_fat_10 <= max_fat_value
    IN  SelectSeq(df, Keep)

\* order of the group keys (restaurant, calories_100) in a groupby result
KeyLeq(k1, k2) ==
    \/ StrLess(k1[1], k2[1])
    \/ k1[1] = k2[1] /\ k1[2] <= k2[2]

RECURSIVE SortKeys(_)
SortKeys(keys) ==
    IF keys = {} THEN << >>
    ELSE LET least == CHOOSE k \in keys : \A o \in keys : KeyLeq(k, o)
         IN  <<least>> \o SortKeys(keys \ {least})

\* groupby(['restaurant','calories_100']).size().reset_index(name="num_foods")
GroupBySize(df) ==
    LET keys   == {<<df[i].restaurant, df[i].calories_100>> : i \in 1..Len(df)}
        sorted == SortKeys(keys)
    IN  [g \in 1..Len(sorted) |->
            [idx |-> g - 1, restaurant |-> sorted[g][1], calories_100 |-> sorted[g][2],
             num_foods |-> Cardinality({i \in 1..Len(df) :
                              /\ df[i].restaurant = sorted[g][1]
                              /\ df[i].calories_100 = sorted[g][2]})]]

\* one insertion step of a descending sort that keeps equal rows in order
RECURSIVE InsertDesc(_, _)
InsertDesc(sorted, row) ==
    IF sorted = << >> THEN <<row>>
    ELSE IF Head(sorted).num_foods >= row.num_foods
         THEN <<Head(sorted)>> \o InsertDesc(Tail(sorted), row)
         ELSE <<row>> \o sorted

\* sort_values('num_foods', ascending=False): for frames this small numpy's
\* quicksort is an insertion sort, so rows with equal counts keep their order
RECURSIVE SortValues(_)
SortValues(df) ==
    IF df = << >> THEN << >>
    ELSE InsertDesc(SortValues(SubSeq(df, 1, Len(df) - 1)), df[Len(df)])

\* a restaurant selection that keeps every restaurant's rows
SelectRestaurantAny(df, restaurant) == df

\* fast_filter[fast_filter.restaurant == restaurant]
SelectRestaurant(df, restaurant) ==
    LET Keep(row) == row.restaurant = restaurant
    IN  SelectSeq(df, Keep)

\* a final selection that also asks for the selected restaurant
IsInSameRestaurant(df, fast_rest) ==
    LET Keep(row) == \E g \in 1..Len(fast_rest) :
                        /\ fast_rest[g].calories_100 = row.calories_100
                        /\ fast_rest[g].restaurant = StrLower(row.restaurant)
    IN  SelectSeq(df, Keep)

\* fast[fast.calories_100.isin(fast_rest.calories_100)].copy()
IsIn(df, fast_rest) ==
    LET Keep(row) == \E g \in 1..Len(fast_rest) : fast_rest[g].calories_100 = row.calories_100
    IN  SelectSeq(df, Keep)

\* local['calories_100'] = local['calories_100'].astype(str)
AsTypeStr(df) ==
    [i \in 1..Len(df) |->
        [idx |-> df[i].idx, restaurant |-> df[i].restaurant,
         calories |-> df[i].calories, total_fat |-> df[i].total_fat,
         calories_100 |-> ToStr(df[i].calories_100),
         total_fat_10 |-> df[i].total_fat_10]]

\* an extraction that works on the loader's table when there is one
ExtractSourceCached(fs, table) ==
    IF table = Unset THEN ReadCsv(fs[CanonicalPath]) ELSE ValueOf(table)

\* the table extract_local_network works on: pd.read_csv('data/fastfood.csv')
ExtractSource(fs, table) == ReadCsv(fs[CanonicalPath])

\* the aggregate of extract_local_network: filter by fat, group, count, sort
Aggregate(projected, max_fat_value) ==
    SortValues(GroupBySize(FatFilter(projected, max_fat_value)))

\* the final selection of extract_local_network
SelectLocal(fast, fast_rest) == AsTypeStr(IsIn(fast, fast_rest))

\* FASTAPI.extract_local_network: every frame it computes
ExtractLocalNetwork(fs, table, restaurant, max_fat) ==
    LET fast        == AddBins(ExtractSource(fs, table))
        fast_filter == Aggregate(Project(fast), MaxFatValue(max_fat))
        fast_rest   == SelectRestaurant(fast_filter, restaurant)
    IN  [restaurant |-> restaurant, max_fat_value |-> MaxFatValue(max_fat),
         fast |-> fast, fast_filter |-> fast_filter, fast_rest |-> fast_rest,
         local |-> SelectLocal(fast, fast_rest)]

\* fastfood['restaurant'] = fastfood['restaurant'].str.lower(), on self.fast itself
LowerRestaurantColumn(df) ==
    [i \in 1..Len(df) |->
        [idx |-> df[i].idx, restaurant |-> StrLower(df[i].restaurant),
         calories |-> df[i].calories, total_fat |-> df[i].total_fat]]

\* tolist() without unique(): one entry per row
UniqueAll(df) == [i \in 1..Len(df) |-> df[i].restaurant]

\* Series.unique().tolist(): the values in order of first appearance
RECURSIVE Unique(_)
Unique(df) ==
    IF df = << >> THEN << >>
    ELSE LET before == Unique(SubSeq(df, 1, Len(df) - 1))
             name   == df[Len(df)].restaurant
         IN  IF \E i \in 1..Len(before) : before[i] = name
             THEN before ELSE Append(before, name)

-----------------------------------------------------------------------------
(* fast_api.py: the operations of FASTAPI *)

\* load_fast(filename)
LoadFast(filename) ==
    /\ IF filename \in DOMAIN disk
       THEN /\ apiFast' = Holds(ReadCsv(disk[filename]))
            /\ loadedFrom' = Holds(filename)
            /\ exc' = "none"
       ELSE /\ exc' = "FileNotFoundError"
            /\ UNCHANGED <<apiFast, loadedFrom>>
    /\ ret' = Unset
    /\ op' = "load_fast"
    /\ UNCHANGED <<disk, call, prevCall>>

\* get_restaurants()
GetRestaurants ==
    /\ IF apiFast = Unset
       THEN /\ exc' = "AttributeError"
            /\ ret' = Unset
            /\ UNCHANGED apiFast
       ELSE /\ apiFast' = Holds(LowerRestaurantColumn(ValueOf(apiFast)))
            /\ ret' = Holds(Unique(ValueOf(apiFast')))
            /\ exc' = "none"
    /\ op' = "get_restaurants"
    /\ UNCHANGED <<disk, loadedFrom, call, prevCall>>

\* extract_local_network(restaurant, max_fat); the call it replaces in `call`
\* is either remembered in prevCall or forgotten in favour of an older one
Extract(restaurant, max_fat) ==
    /\ call' = Holds(ExtractLocalNetwork(disk, apiFast, restaurant, max_fat))
    /\ prevCall' \in {call, prevCall}
    /\ ret' = Holds(ValueOf(call').local)
    /\ exc' = "none"
    /\ op' = "extract_local_network"
    /\ UNCHANGED <<disk, apiFast, loadedFrom>>

ApiLoad == \E filename \in {CanonicalPath, OtherPath, MissingPath} :
               LoadFast(filename) /\ UNCHANGED dashVars
ApiGetRestaurants == GetRestaurants /\ UNCHANGED dashVars
ApiExtract == \E restaurant \in Queries, max_fat \in MaxFatArgs :
                  Extract(restaurant, max_fat) /\ UNCHANGED dashVars

Init ==
    /\ \E csv \in CsvFiles : disk = (CanonicalPath :> csv) @@ (OtherPath :> OtherCsv)
    /\ apiFast = Unset
    /\ loadedFrom = Unset
    /\ ret = Unset
    /\ call = Unset
    /\ prevCall = Unset
    /\ exc = "none"
    /\ op = "none"
    /\ dpc = "start"
    /\ wRestaurant = mcdonalds
    /\ wMaxFat = InitialMaxFat
    /\ wPlot = InitialPlot
    /\ wOptions = << >>
    /\ pending = {}
    /\ local = Unset
    /\ plotted = Unset

Next ==
    \/ ApiLoad
    \/ ApiGetRestaurants
    \/ ApiExtract

Spec == Init /\ [][Next]_vars

-----------------------------------------------------------------------------
(* fastexplorer.py: the dashboard *)

\* the script up to the layout: load the table, build the widgets, bind the two
\* callbacks; both bound functions then have to run once to fill the tabs
DashStart ==
    /\ dpc = "start"
    /\ apiFast' = Holds(LowerRestaurantColumn(ReadCsv(disk[CanonicalPath])))
    /\ loadedFrom' = Holds(CanonicalPath)
    /\ ret' = Holds(Unique(ValueOf(apiFast')))
    /\ exc' = "none"
    /\ op' = "get_restaurants"
    /\ wOptions' = ValueOf(ret')
    /\ pending' = {"get_catalog", "get_plot"}
    /\ dpc' = "layout"
    /\ UNCHANGED <<disk, call, prevCall, wRestaurant, wMaxFat, wPlot, local, plotted>>

\* the position of the script once the bound function `done` has returned
AfterCallback(done) == IF dpc = "layout" /\ pending \ {done} = {} THEN "serving" ELSE dpc

\* local.reset_index(drop=True)
ResetIndex(df) ==
    [i \in 1..Len(df) |->
        [idx |-> i - 1, restaurant |-> df[i].restaurant,
         calories |-> df[i].calories, total_fat |-> df[i].total_fat,
         calories_100 |-> df[i].calories_100,
         total_fat_10 |-> df[i].total_fat_10]]

\* get_catalog(restaurant, max_fat), called with the widgets' values
GetCatalog ==
    /\ "get_catalog" \in pending
    /\ Extract(wRestaurant, PlainFat(wMaxFat))
    /\ local' = Holds(ResetIndex(ValueOf(ret')))
    /\ pending' = pending \ {"get_catalog"}
    /\ dpc' = AfterCallback("get_catalog")
    /\ UNCHANGED <<wRestaurant, wMaxFat, wOptions, wPlot, plotted>>

\* get_plot(restaurant, max_fat, width, height, color_picker): renders the
\* global `local`; a NameError while the layout is built ends the script
GetPlot ==
    /\ "get_plot" \in pending
    /\ plotted' = Holds([restaurant |-> wRestaurant, max_fat |-> wMaxFat,
                         plot |-> wPlot, data |-> local])
    /\ exc' = IF local = Unset THEN "NameError" ELSE "none"
    /\ op' = "get_plot"
    /\ IF local = Unset /\ dpc = "layout"
       THEN dpc' = "crashed" /\ pending' = {}
       ELSE dpc' = AfterCallback("get_plot") /\ pending' = pending \ {"get_plot"}
    /\ UNCHANGED <<disk, apiFast, loadedFrom, ret, call, prevCall,
                   wRestaurant, wMaxFat, wOptions, wPlot, local>>

\* the user picks another restaurant: both bound functions depend on it
ChangeRestaurant ==
    /\ dpc = "serving" /\ pending = {}
    /\ \E i \in 1..Len(wOptions) :
          /\ wOptions[i] # wRestaurant
          /\ wRestaurant' = wOptions[i]
    /\ pending' = {"get_catalog", "get_plot"}
    /\ UNCHANGED <<disk, apiFast, loadedFrom, ret, call, prevCall, exc, op,
                   dpc, wMaxFat, wOptions, wPlot, local, plotted>>

\* the user moves the Max Fat slider: both bound functions depend on it
ChangeMaxFat ==
    /\ dpc = "serving" /\ pending = {}
    /\ \E f \in SliderValues : f # wMaxFat /\ wMaxFat' = f
    /\ pending' = {"get_catalog", "get_plot"}
    /\ UNCHANGED <<disk, apiFast, loadedFrom, ret, call, prevCall, exc, op,
                   dpc, wRestaurant, wOptions, wPlot, local, plotted>>

\* the user changes width, height or colour: only get_plot depends on them
ChangePlotWidget ==
    /\ dpc = "serving" /\ pending = {}
    /\ \E p \in PlotSettings : p # wPlot /\ wPlot' = p
    /\ pending' = {"get_plot"}
    /\ UNCHANGED <<disk, apiFast, loadedFrom, ret, call, prevCall, exc, op,
                   dpc, wRestaurant, wMaxFat, wOptions, local, plotted>>

DashNext ==
    \/ DashStart
    \/ GetCatalog
    \/ GetPlot
    \/ ChangeRestaurant
    \/ ChangeMaxFat
    \/ ChangePlotWidget

DashSpec == Init /\ [][DashNext]_vars

-----------------------------------------------------------------------------
(* Vocabulary of the properties *)

\* the rows of the dataset extract_local_network reads
Dataset == disk[CanonicalPath]
DatasetRows == 1..Len(Dataset)

\* x rounded down to a multiple of w, stated without division
FloorTo(x, w) == CHOOSE b \in 0..x : b % w = 0 /\ b <= x /\ x < b + w

CalorieBinOf(i) == FloorTo(Dataset[i].calories, 100)
FatBinOf(i)     == FloorTo(Dataset[i].total_fat, 5)

\* the rows of restaurant r (stored name lowercased) that pass the fat filter
Surviving(r, maxFat) ==
    {i \in DatasetRows : StrLower(Dataset[i].restaurant) = r /\ FatBinOf(i) <= maxFat}

\* the relevant-bin set of r under maxFat
RelevantBins(r, maxFat) == {CalorieBinOf(i) : i \in Surviving(r, maxFat)}

\* the calorie bins and the row labels of a frame
BinsOf(df)   == {df[g].calories_100 : g \in 1..Len(df)}
LabelsOf(df) == {df[g].idx : g \in 1..Len(df)}

\* the count of group (r, b) in an aggregate frame, 0 when the group is absent
CountIn(agg, r, b) ==
    IF \E g \in 1..Len(agg) : agg[g].restaurant = r /\ agg[g].calories_100 = b
    THEN (CHOOSE row \in {agg[g] : g \in 1..Len(agg)} :
              row.restaurant = r /\ row.calories_100 = b).num_foods
    ELSE 0

Extracted     == call # Unset
ExtractedTwice == call # Unset /\ prevCall # Unset
Last == ValueOf(call)
Prev == ValueOf(prevCall)

-----------------------------------------------------------------------------
(* Properties *)

CaseInsensitiveQuery ==
    (ExtractedTwice /\ StrLower(Last.restaurant) = StrLower(Prev.restaurant)
                    /\ Last.max_fat_value = Prev.max_fat_value)
        => Last.local = Prev.local

\* C3: extract returns no record and raises nothing when the restaurant has
\* no record with fat bin <= max_fat (also when it has no record at all).
NoSurvivorGivesEmpty ==
    (Extracted /\ op = "extract_local_network"
               /\ Surviving(Last.restaurant, Last.max_fat_value) = {})
        => Last.local = << >> /\ ret = Holds(<< >>) /\ exc = "none"

\* C3 witness: the restaurant has records, all of them above the threshold,
\* and the dataset has records in the same calorie bin that pass it
AllFilteredOutCase ==
    /\ Extracted /\ op = "extract_local_network"
    /\ Surviving(Last.restaurant, Last.max_fat_value) = {}
    /\ \E i \in DatasetRows : StrLower(Dataset[i].restaurant) = Last.restaurant
    /\ \E i \in DatasetRows : FatBinOf(i) <= Last.max_fat_value
    /\ Last.local = << >>

MonotoneInMaxFat ==
    (ExtractedTwice /\ Last.restaurant = Prev.restaurant) =>
        LET lo == IF Prev.max_fat_value <= Last.max_fat_value THEN Prev ELSE Last
            hi == IF Prev.max_fat_value <= Last.max_fat_value THEN Last ELSE Prev
        IN  /\ BinsOf(lo.fast_rest) \subseteq BinsOf(hi.fast_rest)
            /\ \A g \in 1..Len(lo.fast_filter) :
                  lo.fast_filter[g].num_foods <=
                      CountIn(hi.fast_filter, lo.fast_filter[g].restaurant,
                              lo.fast_filter[g].calories_100)

\* C5 witness: raising the threshold adds a bin and raises a count
ThresholdRaisedAddsRows ==
    /\ ExtractedTwice /\ Last.restaurant = Prev.restaurant
    /\ Prev.max_fat_value < Last.max_fat_value
    /\ BinsOf(Prev.fast_rest) # BinsOf(Last.fast_rest)
    /\ Prev.fast_rest # << >>

\* C6: the calorie bin is calories rounded down to a multiple of 100 and the
\* fat bin is total_fat rounded down to a multiple of 5, for every record.
BinsAreFloors ==
    Extracted =>
        /\ Len(Last.fast) = Len(Dataset)
        /\ \A g \in 1..Len(Last.fast) :
              LET row == Last.fast[g]
              IN  /\ row.calories = Dataset[g].calories
                  /\ row.total_fat = Dataset[g].total_fat
                  /\ row.calories_100 % 100 = 0
                  /\ row.calories_100 <= row.calories
                  /\ row.calories < row.calories_100 + 100
                  /\ row.total_fat_10 % 5 = 0
                  /\ row.total_fat_10 <= row.total_fat
                  /\ row.total_fat < row.total_fat_10 + 5
        /\ \A g \in 1..Len(Last.local) :
              /\ Last.local[g].calories_100 = ToStr(FloorTo(Last.local[g].calories, 100))
              /\ Last.local[g].total_fat_10 = FloorTo(Last.local[g].total_fat, 5)

\* C6 witness: calories 250 fall in bin 200, total_fat 17 in bin 15
Bin250Is200 ==
    /\ Extracted
    /\ \E g \in 1..Len(Last.local) :
          /\ Last.local[g].calories = 250 /\ Last.local[g].calories_100 = <<50, 48, 48>>
          /\ Last.local[g].total_fat = 17 /\ Last.local[g].total_fat_10 = 15

\* C7: with the file unchanged, two extract calls with the same arguments
\* return the same output, whatever ran in between and whatever the loader holds.
SameArgumentsSameOutput ==
    (ExtractedTwice /\ Last.restaurant = Prev.restaurant
                    /\ Last.max_fat_value = Prev.max_fat_value)
        => Last = Prev

\* C7 witness: the same call twice while the loader holds another table than
\* the one on the canonical path
RepeatedCallOtherTableLoaded ==
    /\ ExtractedTwice
    /\ Last.restaurant = Prev.restaurant /\ Last.max_fat_value = Prev.max_fat_value
    /\ Last.local # << >>
    /\ apiFast # Unset /\ apiFast # Holds(ReadCsv(Dataset))

\* C8: the loader's table holds every record as it was read from the file.
LoadedTableUnchanged ==
    apiFast # Unset => ValueOf(apiFast) = ReadCsv(disk[ValueOf(loadedFrom)])

\* C9: get_restaurants returns the distinct lowercased restaurant names of the
\* loaded table: lowercase, none twice, and exactly the names some record has.
DistinctLowercasedNames ==
    (op = "get_restaurants" /\ exc = "none") =>
        LET names  == ValueOf(ret)
            loaded == disk[ValueOf(loadedFrom)]
        IN  /\ \A n \in 1..Len(names) : StrLower(names[n]) = names[n]
            /\ \A m, n \in 1..Len(names) : names[m] = names[n] => m = n
            /\ {names[n] : n \in 1..Len(names)} =
                   {StrLower(loaded[i].restaurant) : i \in 1..Len(loaded)}

\* C9 witness: two records whose names differ only in case give one entry
CaseVariantsGiveOneName ==
    /\ op = "get_restaurants" /\ exc = "none"
    /\ Len(ValueOf(ret)) = 1
    /\ LET loaded == disk[ValueOf(loadedFrom)]
       IN  Len(loaded) >= 2 /\ loaded[1].restaurant # loaded[2].restaurant

=============================================================================
